---- MODULE Spec2Model ----
(***************************************************************************)
(* State-machine model of the two Flask blueprints of this repository:     *)
(*   hydra_client.HydraClientBlueprint   (strict-lookup login completion)  *)
(*   hydra_oauth2.HydraOAuth2Blueprint   (create-or-update completion)     *)
(* The state is the relational store (user table, hydra_token table), the  *)
(* per-browser Flask session (flask_login's current user and the           *)
(* "<name>_oauth_state" entry), the blueprint's attributes, and a record   *)
(* of the last handled request and its outcome.                            *)
(***************************************************************************)
EXTENDS Integers, FiniteSets, Sequences, TLC

\* ------------------------------------------------------------------ bounds
\* number of uuid4() values that logout() may draw in one behaviour
MaxNonce == 2

\* ------------------------------------------------------------- value sets
\* subjects ("sub") the provider can report; also the user table's keys
UserIds == {"u1", "u2"}
\* browser sessions (one Flask session cookie each); the handlers read and write
\* only the session of the request, so one browser is followed
Sessions == {"s1"}
\* the `email` claim of a userinfo response
Emails == {"e1", "e2"}
\* flask_login's AnonymousUserMixin as current_user
Anonymous == "anonymous"
\* Python's None, for a user object
NoUser == [absent |-> TRUE]
\* Python's None, for the `token` argument of the oauth_authorized signal
NoToken == [absent |-> TRUE]
\* a token payload without the optional id_token key
NoIdToken == "<no id_token>"
\* token payloads the token endpoint can return
Tokens ==
    { [access_token |-> "a1", id_token |-> "i1"],
      [access_token |-> "a2", id_token |-> NoIdToken] }
\* None / a key that is not in the Flask session
NoneVal == 0
\* the values uuid4() returns, in the order they are drawn
Nonces == 1..MaxNonce
\* the `state` query parameter of /logged_out: missing, or any string
StateArgs == {NoneVal} \cup Nonces
\* a keyword argument that is not passed
NoArg == "<absent>"
\* the `error` and `error_description` keyword arguments of oauth_error
ErrorArgs == {NoArg, "access_denied"}
\* requests that may be handled at the same time (one handling context each)
Reqs == {"r1", "r2"}

VARIABLES
    variant,                      \* which blueprint class the application mounts
    name,                         \* self.name, the provider name
    create_local_user,            \* HydraClientBlueprint.create_local_user is set
    create_or_update_local_user,  \* HydraOAuth2Blueprint.create_or_update_local_user is set
    authorization_url_params,     \* the 'mode' entry of self.authorization_url_params
    user_table,                   \* committed rows of the user table, by id
    token_table,                  \* committed rows of hydra_token with this provider:
                                  \* for each user_id the payloads of its rows
    current_user,                 \* flask_login's user of each browser session
    session,                      \* session["<name>_oauth_state"] of each browser session
    uuids,                        \* number of uuid4() values drawn so far
    inflight,                     \* the login completions being handled concurrently
    last,                         \* the last request handled and its outcome
    honored,                      \* history: the nonces logged_out() has honored
                                  \* since logout() last stored one
    via_flow,                     \* history: the session's user was logged in by
                                  \* hydra_logged_in and has not been logged out
    latest                        \* history: for each user the payload of the most
                                  \* recent login completion that succeeded

blueprint == << variant, name, create_local_user, create_or_update_local_user,
                authorization_url_params >>
db        == << user_table, token_table >>
cookie    == << current_user, session >>
vars      == << blueprint, db, cookie, uuids, inflight, last, honored, via_flow, latest >>

\* ------------------------------------------------------------ the store
\* class User of the application: the columns the callbacks' examples set
User(id, email) == [id |-> id, email |-> email]

\* a hydra_token row (HydraTokenMixin): provider, user_id, token
TokenRow(provider, user_id, token) ==
    [provider |-> provider, user_id |-> user_id, token |-> token]

\* query(token_model).filter_by(provider=..., user_id=...): the payloads of the
\* matching rows, oldest first
filter_by(table, provider, user_id) ==
    IF provider = name THEN table[user_id] ELSE << >>

\* Query.one(): the single row, or NoResultFound / MultipleResultsFound
one(table, provider, user_id) ==
    LET rows == filter_by(table, provider, user_id)
    IN  IF Len(rows) = 0 THEN [exc |-> "NoResultFound"]
        ELSE IF Len(rows) > 1 THEN [exc |-> "MultipleResultsFound"]
        ELSE [exc |-> "", row |-> TokenRow(provider, user_id, rows[1])]

\* UniqueConstraint('provider', 'user_id'): may a new row with this key be inserted
UniqueConstraint(table, provider, user_id) ==
    Len(filter_by(table, provider, user_id)) = 0

\* query(user_model).get(user_id)
get(table, user_id) == table[user_id]

\* mutant of current_user_token: a missing row is read as an empty payload
current_user_token_lenient(s) ==
    IF current_user[s] # Anonymous /\ token_table[current_user[s]] = << >>
    THEN [exc |-> "", row |-> TokenRow(name, current_user[s],
                                       [access_token |-> "", id_token |-> NoIdToken])]
    ELSE IF current_user[s] = Anonymous THEN [exc |-> "AttributeError"]
    ELSE one(token_table, name, current_user[s])

\* the Token Record of the session's user, as logout() and get_access_token()
\* look it up; AnonymousUserMixin has no id attribute
current_user_token(s) ==
    IF current_user[s] = Anonymous
    THEN [exc |-> "AttributeError"]
    ELSE one(token_table, name, current_user[s])

\* ---------------------------------------------------- the request record
NoFlash == << >>

\* op: the handler; s: the browser session; result: how the handler ended;
\* flash: the message it flashed; then the request's inputs (state_val, token,
\* r_ok, sub, email), what the callback did (cb), the raised exception or the
\* returned value (value), the redirect's id_token_hint (hint), the number of
\* hydra_token rows the request wrote (writes), the keyword arguments of
\* oauth_error (error, error_description), and for logged_out whether the request
\* before it was a logged_out that did not match the stored nonce (strays)
Outcome(op, s, result, flash) ==
    [op |-> op, s |-> s, result |-> result, flash |-> flash,
     state_val |-> NoneVal, sub |-> "", token |-> NoToken, value |-> "",
     hint |-> "", r_ok |-> FALSE, email |-> "", cb |-> "", writes |-> 0,
     error |-> "", error_description |-> "", strays |-> FALSE]

\* ------------------------------------------------------------------ Init
NoRow == [absent |-> TRUE]

\* what a login completion has decided once its queries are done: how it ends
\* (status), and for status "commit" what db.session holds for the commit
Plan(status, flash, exc, cb) ==
    [status |-> status, flash |-> flash, exc |-> exc, cb |-> cb,
     user |-> NoUser, user_new |-> FALSE, old |-> NoRow, new |-> NoRow]

\* a handling context that has no request yet
Idle == [pc |-> "idle"]

Init ==
    /\ variant \in {"client", "oauth2"}
    /\ name = "hydra"
    /\ create_local_user = FALSE
    /\ create_or_update_local_user = FALSE
    /\ authorization_url_params = "unset"
    \* the application's user table may already hold users
    /\ user_table \in [UserIds -> {NoUser} \cup {User(u, "e1") : u \in UserIds}]
    /\ \A u \in UserIds : user_table[u] # NoUser => user_table[u].id = u
    /\ token_table = [u \in UserIds |-> << >>]
    \* a browser session may already be logged in by the application's own means
    /\ current_user \in [Sessions -> UserIds \cup {Anonymous}]
    /\ \A s \in Sessions :
          current_user[s] # Anonymous => user_table[current_user[s]] # NoUser
    /\ session = [s \in Sessions |-> NoneVal]
    /\ uuids = 0
    /\ inflight = [r \in Reqs |-> Idle]
    /\ last = Outcome("init", "s1", "none", NoFlash)
    /\ honored = {}
    /\ via_flow = [s \in Sessions |-> FALSE]
    /\ latest = [u \in UserIds |-> NoToken]

\* ------------------------------------------------- logout / logged_out
\* mutant of uuid4: the value of the call before is returned again
uuid4_fixed == IF uuids = 0 THEN uuids + 1 ELSE uuids

\* str(uuid4()): a value no earlier call returned
uuid4 == uuids + 1

\* mutant of StateMatches: session.get(state_key) == state_val
StateMatches_get(s, state_val) == session[s] = state_val

\* mutant of StateMatches: any presented state is accepted
StateMatches_any(s, state_val) == state_val # NoneVal

\* `state_key in session and session[state_key] == state_val`
StateMatches(s, state_val) ==
    /\ session[s] # NoneVal
    /\ session[s] = state_val

\* mutant of del_state: the nonce is left in the session
del_state_skipped(s) == session

\* `del session[state_key]`
del_state(s) == [session EXCEPT ![s] = NoneVal]

\* mutant of logout_user: the session keeps its user
logout_user_skipped(s) == current_user

\* logout_user()
logout_user(s) == [current_user EXCEPT ![s] = Anonymous]

\* logged_out(): both blueprints
logged_out(s, state_val) ==
    LET strays == /\ last.op = "logged_out"
                  /\ last.s = s
                  /\ session[s] # NoneVal
                  /\ last.state_val # session[s]
    IN
    /\ IF StateMatches(s, state_val)
       THEN /\ current_user' = logout_user(s)
            /\ session' = del_state(s)
            /\ honored' = honored \cup {state_val}
            /\ via_flow' = [via_flow EXCEPT ![s] = FALSE]
            /\ last' = [Outcome("logged_out", s, "redirect_root", <<"Logged out.">>)
                          EXCEPT !.state_val = state_val, !.strays = strays]
       ELSE /\ UNCHANGED << cookie, honored, via_flow >>
            /\ last' = [Outcome("logged_out", s, "redirect_root", NoFlash)
                          EXCEPT !.state_val = state_val, !.strays = strays]
    /\ UNCHANGED << blueprint, db, uuids, inflight, latest >>

\* local_token.token['id_token'] (HydraClientBlueprint, KeyError when absent) or
\* local_token.token.get('id_token', '') (HydraOAuth2Blueprint)
id_token_hint(token) ==
    IF token.id_token # NoIdToken THEN [exc |-> "", hint |-> token.id_token]
    ELSE IF variant = "client" THEN [exc |-> "KeyError", hint |-> ""]
    ELSE [exc |-> "", hint |-> ""]

\* mutant of logout: the local session is ended when the logout is initiated
logout_eager(s) ==
    /\ current_user_token(s).exc = ""
    /\ uuids < MaxNonce
    /\ uuids' = uuids + 1
    /\ session' = [session EXCEPT ![s] = uuid4]
    /\ current_user' = [current_user EXCEPT ![s] = Anonymous]
    /\ honored' = {}
    /\ last' = [Outcome("logout", s, "redirect_logout", NoFlash)
                  EXCEPT !.state_val = uuid4]
    /\ UNCHANGED << blueprint, db, inflight, via_flow, latest >>

\* logout(): both blueprints
logout(s) ==
    \E found \in { current_user_token(s) } :
    /\ IF found.exc # ""
       THEN /\ UNCHANGED << session, uuids, honored >>
            /\ last' = [Outcome("logout", s, "raise", NoFlash) EXCEPT !.value = found.exc]
       ELSE /\ uuids < MaxNonce
            /\ uuids' = uuids + 1
            /\ IF id_token_hint(found.row.token).exc # ""
               THEN \* the KeyError is raised after the nonce was put in the session;
                    \* the session cookie is written with the error response
                    \* unless the application propagates exceptions
                    /\ session' \in { session, [session EXCEPT ![s] = uuid4] }
                    /\ honored' = IF session' = session THEN honored ELSE {}
                    /\ last' = [Outcome("logout", s, "raise", NoFlash)
                                  EXCEPT !.value = "KeyError"]
               ELSE /\ session' = [session EXCEPT ![s] = uuid4]
                    /\ honored' = {}
                    /\ last' = [Outcome("logout", s, "redirect_logout", NoFlash)
                                  EXCEPT !.state_val = uuid4,
                                         !.hint = id_token_hint(found.row.token).hint]
    /\ UNCHANGED << blueprint, db, current_user, inflight, via_flow, latest >>

\* HydraOAuth2Blueprint.get_access_token()
get_access_token(s) ==
    \E found \in { current_user_token(s) } :
    /\ variant = "oauth2"
    /\ IF found.exc # ""
       THEN last' = [Outcome("get_access_token", s, "raise", NoFlash)
                       EXCEPT !.value = found.exc]
       ELSE last' = [Outcome("get_access_token", s, "return", NoFlash)
                       EXCEPT !.value = found.row.token.access_token]
    /\ UNCHANGED << blueprint, db, cookie, uuids, inflight, honored, via_flow, latest >>

\* mutant of pop: the argument is read without a default
pop_no_default(arg) == arg

\* kwargs.pop(key, ''): the argument, or the empty string when it is not passed
pop(arg) == IF arg = NoArg THEN "" ELSE arg

\* self.name.title()
title(str) == IF str = "hydra" THEN "Hydra" ELSE str

\* hydra_error(): flash the formatted message; the two blueprints differ in the
\* separator between the error and its description
hydra_error(s, error, error_description) ==
    /\ last' = [Outcome("error", s, "none",
                        << "OAuth error from ", title(name), ": error=", pop(error),
                           IF variant = "oauth2" THEN "; error_description="
                                                 ELSE " error_description=",
                           pop(error_description) >>)
                  EXCEPT !.error = error, !.error_description = error_description]
    /\ UNCHANGED << blueprint, db, cookie, uuids, inflight, honored, via_flow, latest >>

\* _set_login_mode(mode) followed by super().login(), which redirects to the
\* authorization URL with self.authorization_url_params
_set_login_mode(s, mode) ==
    /\ variant = "oauth2"
    /\ authorization_url_params' = mode
    /\ last' = [Outcome(mode, s, "redirect_auth", NoFlash)
                  EXCEPT !.value = authorization_url_params']
    /\ UNCHANGED << variant, name, create_local_user, create_or_update_local_user,
                    db, cookie, uuids, inflight, honored, via_flow,
                    latest >>

signup(s) == _set_login_mode(s, "signup")

login(s) == _set_login_mode(s, "login")

\* @blueprint.local_user_creator
local_user_creator ==
    /\ variant = "client"
    /\ ~create_local_user
    /\ create_local_user' = TRUE
    /\ last' = Outcome("local_user_creator", "s1", "none", NoFlash)
    /\ UNCHANGED << variant, name, create_or_update_local_user,
                    authorization_url_params, db, cookie, uuids, inflight,
                    honored, via_flow, latest >>

\* @blueprint.local_user_updater
local_user_updater ==
    /\ variant = "oauth2"
    /\ ~create_or_update_local_user
    /\ create_or_update_local_user' = TRUE
    /\ last' = Outcome("local_user_updater", "s1", "none", NoFlash)
    /\ UNCHANGED << variant, name, create_local_user,
                    authorization_url_params, db, cookie, uuids, inflight,
                    honored, via_flow, latest >>

\* ------------------------------------------------------ login completion
\* the userinfo responses of the provider: the subject and one more claim
UserInfos == [sub : UserIds, email : Emails]

\* the callback of local_user_updater's docstring: create if absent, set the fields
update_user(user, userinfo) == User(userinfo.sub, userinfo.email)

\* the callback of local_user_creator's docstring
create_user(userinfo) == User(userinfo.sub, userinfo.email)

\* mutant of has_creator: the callback is used without testing that it is set
has_creator_always == TRUE

\* `if self.create_local_user:`
has_creator == create_local_user

\* `if self.create_or_update_local_user:`
has_updater == create_or_update_local_user

\* mutant of OAuth2Payload: the row that was found keeps its payload
OAuth2Payload_stale(row, token) == row.token

\* `local_token.token = token` on the row that was found
OAuth2Payload(row, token) == token

\* HydraOAuth2Blueprint.hydra_logged_in up to the commit, on the committed tables
\* it reads; `declines` is the callback returning None
OAuth2Plan(users, tokens, token, r_ok, userinfo, declines) ==
    LET user_id == userinfo.sub
        existing == get(users, user_id)
        local_user == IF ~has_updater THEN existing
                      ELSE IF declines THEN NoUser
                      ELSE update_user(existing, userinfo)
        cb == IF ~has_updater THEN ""
              ELSE IF declines THEN "none"
              ELSE IF existing = NoUser THEN "created" ELSE "updated"
        found == one(tokens, name, user_id)
    IN  IF token = NoToken THEN Plan("abort", <<"Unable to log in.">>, "", "")
        ELSE IF ~r_ok THEN Plan("abort", <<"Unable to fetch user info.">>, "", "")
        ELSE IF has_updater /\ local_user = NoUser
             \* db_session.add(None)
             THEN Plan("raise", NoFlash, "UnmappedInstanceError", cb)
        ELSE IF local_user = NoUser THEN Plan("abort", <<"User not found.">>, "", cb)
        ELSE IF found.exc = "MultipleResultsFound"
             THEN Plan("raise", NoFlash, found.exc, cb)
        ELSE [ Plan("commit", <<"Logged in.">>, "", cb) EXCEPT
                 !.user = IF has_updater THEN local_user ELSE NoUser,
                 !.user_new = has_updater /\ existing = NoUser,
                 !.old = IF found.exc = "" THEN found.row ELSE NoRow,
                 !.new = IF found.exc = ""
                         THEN TokenRow(name, user_id, OAuth2Payload(found.row, token))
                         ELSE TokenRow(name, user_id, token) ]

\* HydraClientBlueprint.hydra_logged_in up to the commit
ClientPlan(users, tokens, token, r_ok, userinfo, declines) ==
    LET user_id == userinfo.sub
        found == one(tokens, name, user_id)
        \* local_token.user: loaded for a stored row, None for a new object
        token_user == IF found.exc = "" THEN get(users, user_id) ELSE NoUser
        existing == get(users, user_id)
        user == IF existing # NoUser THEN existing
                ELSE IF declines THEN NoUser
                ELSE create_user(userinfo)
        cb == IF existing # NoUser \/ ~has_creator THEN ""
              ELSE IF declines THEN "none" ELSE "created"
    IN  IF token = NoToken THEN Plan("abort", <<"Unable to log in.">>, "", "")
        ELSE IF ~r_ok THEN Plan("abort", <<"Unable to fetch user info.">>, "", "")
        ELSE IF found.exc = "MultipleResultsFound"
             THEN Plan("raise", NoFlash, found.exc, "")
        ELSE IF token_user # NoUser THEN Plan("nowrite", <<"Logged in.">>, "", "")
        ELSE IF existing = NoUser /\ ~has_creator
             THEN Plan("abort", <<"User not found.">>, "", cb)
        ELSE IF user = NoUser
             \* local_token.user = None blanks user_id, which is nullable=False:
             \* the commit fails
             THEN Plan("raise", NoFlash, "IntegrityError", cb)
        ELSE [ Plan("commit", <<"Logged in.">>, "", cb) EXCEPT
                 !.user = IF existing = NoUser THEN user ELSE NoUser,
                 !.user_new = existing = NoUser,
                 !.old = IF found.exc = "" THEN found.row ELSE NoRow,
                 !.new = IF found.exc = "" THEN found.row
                         ELSE TokenRow(name, user_id, token) ]

\* mutant of hydra_logged_in_plan: r.ok is not tested
plan_without_ok_check(users, tokens, token, r_ok, userinfo, declines) ==
    IF variant = "oauth2"
    THEN OAuth2Plan(users, tokens, token, TRUE, userinfo, declines)
    ELSE ClientPlan(users, tokens, token, TRUE, userinfo, declines)

\* hydra_logged_in up to the commit, in the blueprint that is mounted
hydra_logged_in_plan(users, tokens, token, r_ok, userinfo, declines) ==
    IF variant = "oauth2"
    THEN OAuth2Plan(users, tokens, token, r_ok, userinfo, declines)
    ELSE ClientPlan(users, tokens, token, r_ok, userinfo, declines)

\* mutant of commit: the user is committed, the token row is not
commit_user_only(users, tokens, plan) ==
    [exc |-> "", writes |-> 0,
     users |-> IF plan.user = NoUser THEN users
               ELSE [users EXCEPT ![plan.new.user_id] = plan.user],
     tokens |-> tokens]

\* mutant of commit: nothing is committed and no error is raised
commit_dropped(users, tokens, plan) ==
    [exc |-> "", writes |-> 0, users |-> users, tokens |-> tokens]

\* db.session.commit() of a plan against the tables as they are at the commit:
\* the INSERTs are refused by the primary key of user and by UniqueConstraint
commit(users, tokens, plan) ==
    LET key == plan.new.user_id
        pk_ok == ~plan.user_new \/ users[key] = NoUser
        uq_ok == plan.old # NoRow \/ UniqueConstraint(tokens, name, key)
    IN  IF ~(pk_ok /\ uq_ok)
        THEN [exc |-> "IntegrityError", writes |-> 0,
              users |-> users, tokens |-> tokens]
        \* one INSERT or UPDATE of hydra_token
        ELSE [exc |-> "", writes |-> 1,
              users |-> IF plan.user = NoUser THEN users
                        ELSE [users EXCEPT ![key] = plan.user],
              tokens |-> IF plan.old = NoRow
                         \* INSERT
                         THEN [tokens EXCEPT ![key] = Append(@, plan.new.token)]
                         \* UPDATE of the row that was loaded
                         ELSE [tokens EXCEPT ![key] = [@ EXCEPT ![1] = plan.new.token]]]

\* login_user(local_token.user)
login_user(s, user_id) == [current_user EXCEPT ![s] = user_id]

\* the inputs of one login completion: the token of the oauth_authorized signal,
\* whether the userinfo response is ok, the userinfo, and whether the callback
\* returns None; an input that is never read is not varied
Completions ==
    LET ui0 == CHOOSE u \in UserInfos : TRUE
    IN  { [token |-> NoToken, r_ok |-> FALSE, userinfo |-> ui0, declines |-> FALSE] }
        \cup { [token |-> tk, r_ok |-> FALSE, userinfo |-> ui0, declines |-> FALSE] :
                  tk \in Tokens }
        \cup [token : Tokens, r_ok : {TRUE}, userinfo : UserInfos, declines : BOOLEAN]

\* the rest of hydra_logged_in once its plan is made: the commit, login_user,
\* the flash and the return; c is the request's input
complete(s, c, plan) ==
    \E done \in { IF plan.status = "commit"
                   THEN commit(user_table, token_table, plan)
                   ELSE [exc |-> ""] } :
    LET read == c.token # NoToken /\ c.r_ok
        out(result, flash, exc) ==
            [Outcome("authorized", s, result, flash)
               EXCEPT !.sub = IF read THEN c.userinfo.sub ELSE "",
                      !.email = IF read THEN c.userinfo.email ELSE "",
                      !.token = c.token, !.r_ok = c.r_ok, !.cb = plan.cb,
                      !.value = exc,
                      !.writes = IF plan.status = "commit" THEN done.writes ELSE 0]
    IN  CASE plan.status = "abort" ->
              /\ UNCHANGED << db, current_user, via_flow, latest >>
              /\ last' = out("return_false", plan.flash, "")
         [] plan.status = "raise" ->
              /\ UNCHANGED << db, current_user, via_flow, latest >>
              /\ last' = out("raise", NoFlash, plan.exc)
         [] plan.status = "nowrite" ->
              /\ UNCHANGED db
              /\ current_user' = login_user(s, c.userinfo.sub)
              /\ via_flow' = [via_flow EXCEPT ![s] = TRUE]
              /\ latest' = [latest EXCEPT ![c.userinfo.sub] = c.token]
              /\ last' = out("return_false", plan.flash, "")
         [] plan.status = "commit" /\ done.exc # "" ->
              /\ UNCHANGED << db, current_user, via_flow, latest >>
              /\ last' = out("raise", NoFlash, done.exc)
         [] plan.status = "commit" /\ done.exc = "" ->
              /\ user_table' = done.users
              /\ token_table' = done.tokens
              /\ current_user' = login_user(s, c.userinfo.sub)
              /\ via_flow' = [via_flow EXCEPT ![s] = TRUE]
              /\ latest' = [latest EXCEPT ![c.userinfo.sub] = c.token]
              /\ last' = out("return_false", plan.flash, "")

\* a callback that is not set cannot return None
Possible(c) == c.declines => (has_creator \/ has_updater)

\* hydra_logged_in(bp, token) handled as one request, in either blueprint
hydra_logged_in(s, c) ==
    /\ Possible(c)
    /\ \E plan \in { hydra_logged_in_plan(user_table, token_table, c.token, c.r_ok,
                                          c.userinfo, c.declines) } :
          complete(s, c, plan)
    /\ UNCHANGED << blueprint, session, uuids, inflight, honored >>

\* ------------------------------------------ concurrent login completions
\* request r runs hydra_logged_in up to its last query
query(r, s, c) ==
    /\ inflight[r].pc = "idle"
    /\ Possible(c)
    /\ inflight' = [inflight EXCEPT ![r] =
          [pc |-> "queried", s |-> s, c |-> c,
           plan |-> hydra_logged_in_plan(user_table, token_table, c.token, c.r_ok,
                                         c.userinfo, c.declines)]]
    /\ UNCHANGED << blueprint, db, cookie, uuids, last, honored, via_flow, latest >>

\* request r runs the rest of hydra_logged_in, from the commit on
finish(r) ==
    /\ inflight[r].pc = "queried"
    /\ complete(inflight[r].s, inflight[r].c, inflight[r].plan)
    /\ inflight' = [inflight EXCEPT ![r].pc =
                      IF last'.result = "raise" THEN "error" ELSE "done"]
    /\ UNCHANGED << blueprint, session, uuids, honored >>

\* ------------------------------------------ concurrent login() / signup()
\* load_config(): runs before a request is handled and rebuilds
\* self.authorization_url_params without the mode
load_config ==
    /\ authorization_url_params' = "unset"
    /\ last' = Outcome("load_config", "s1", "none", NoFlash)
    /\ UNCHANGED << variant, name, create_local_user, create_or_update_local_user,
                    db, cookie, uuids, inflight, honored, via_flow,
                    latest >>

\* request r enters login() or signup() and runs self._set_login_mode(mode)
set_login_mode(r, s, mode) ==
    /\ variant = "oauth2"
    /\ inflight[r].pc = "idle"
    /\ authorization_url_params' = mode
    /\ inflight' = [inflight EXCEPT ![r] = [pc |-> "mode_set", s |-> s, op |-> mode]]
    /\ UNCHANGED << variant, name, create_local_user, create_or_update_local_user,
                    db, cookie, uuids, last, honored, via_flow, latest >>

\* request r returns super().login(): the redirect to the authorization URL is
\* built from self.authorization_url_params as it is now
super_login(r) ==
    /\ inflight[r].pc = "mode_set"
    /\ last' = [Outcome(inflight[r].op, inflight[r].s, "redirect_auth", NoFlash)
                  EXCEPT !.value = authorization_url_params]
    /\ inflight' = [inflight EXCEPT ![r] = Idle]
    /\ UNCHANGED << blueprint, db, cookie, uuids, honored, via_flow, latest >>

\* ------------------------------------------------------- specifications
Next ==
    \/ \E s \in Sessions, v \in StateArgs : logged_out(s, v)
    \/ \E s \in Sessions, c \in Completions : hydra_logged_in(s, c)
    \/ \E s \in Sessions : logout(s)
    \/ \E s \in Sessions : get_access_token(s)
    \/ \E s \in Sessions, e \in ErrorArgs, d \in ErrorArgs : hydra_error(s, e, d)
    \/ \E s \in Sessions : signup(s)
    \/ \E s \in Sessions : login(s)
    \/ local_user_creator
    \/ local_user_updater

\* every request is handled to its end before the next one starts
Spec == Init /\ [][Next]_vars

NextConc ==
    \/ \E r \in Reqs, s \in Sessions, c \in Completions : query(r, s, c)
    \/ \E r \in Reqs : finish(r)
    \/ local_user_creator
    \/ local_user_updater

\* two login completions handled at the same time
SpecConc == Init /\ [][NextConc]_vars

NextMode ==
    \/ load_config
    \/ \E r \in Reqs, s \in Sessions, mode \in {"login", "signup"} :
          set_login_mode(r, s, mode)
    \/ \E r \in Reqs : super_login(r)

\* login() and signup() requests handled at the same time
SpecMode == Init /\ [][NextMode]_vars

\* ---------------------------------------------------------------- claims
\* C1: logged_out() never raises and always redirects to the application root;
\* it changes the session's authenticated user only if a nonce is stored in the
\* session and equals the presented state; with the nonce absent or different,
\* or with no state parameter, the authenticated user is unchanged.
C1_LoggedOutHonorsOnlyMatchingNonce ==
    [][ last'.op = "logged_out" =>
          LET s == last'.s
              stored == session[s] # NoneVal /\ session[s] = last'.state_val
          IN  /\ last'.result = "redirect_root"
              /\ (current_user'[s] # current_user[s] => stored)
              /\ (~stored => current_user' = current_user) ]_vars

\* a request without state parameter arrived while a nonce was stored, and the
\* session is still authenticated
C1_Witness ==
    /\ last.op = "logged_out"
    /\ last.state_val = NoneVal
    /\ session[last.s] # NoneVal
    /\ current_user[last.s] # Anonymous

\* C2: the first logged_out() presenting the stored nonce N destroys the session
\* and erases N; a later logged_out() presenting N, with no logout() in between,
\* changes neither the session's user nor the stored nonce and reports nothing.
C2_LogoutNonceSingleUse ==
    [][ last'.op = "logged_out" =>
          LET s == last'.s
              N == last'.state_val
          IN  /\ (session[s] # NoneVal /\ session[s] = N) =>
                    ( /\ current_user'[s] = Anonymous
                      /\ session'[s] = NoneVal
                      /\ last'.flash = <<"Logged out.">> )
              /\ (N \in honored) =>
                    ( /\ UNCHANGED cookie
                      /\ last'.flash = NoFlash ) ]_vars

\* a nonce that was already honored was presented again after the user had
\* logged in again, and the user is still logged in
C2_Witness ==
    /\ last.op = "logged_out"
    /\ last.state_val \in honored
    /\ last.flash = NoFlash
    /\ current_user[last.s] # Anonymous

C4_IdempotentRelogin ==
    [][ (last'.op = "authorized" /\ last'.flash = <<"Logged in.">>) =>
          /\ Len(token_table'[last'.sub]) = 1
          /\ token_table'[last'.sub][1] = last'.token ]_vars

\* C5: two login completions for the same subject that both found no Token
\* Record both end as successful logins, leaving one Token Record that holds
\* the payload of the last writer; no subject ever has two Token Records.
C5_ConcurrentFirstLoginsConverge ==
    /\ \A u \in UserIds : Len(token_table[u]) <= 1
    /\ \A r1, r2 \in Reqs :
          ( /\ r1 # r2
            /\ inflight[r1].pc \in {"done", "error"}
            /\ inflight[r2].pc \in {"done", "error"}
            /\ inflight[r1].plan.status = "commit"
            /\ inflight[r2].plan.status = "commit"
            /\ inflight[r1].plan.old = NoRow
            /\ inflight[r2].plan.old = NoRow
            /\ inflight[r1].c.userinfo.sub = inflight[r2].c.userinfo.sub )
          => ( /\ inflight[r1].pc = "done"
               /\ inflight[r2].pc = "done"
               /\ token_table[inflight[r1].c.userinfo.sub]
                    = << latest[inflight[r1].c.userinfo.sub] >> )

\* C6: a login completion without token, or whose userinfo response is not ok,
\* flashes its failure message, returns, and changes neither the tables nor
\* the session.
C6_FailedCompletionChangesNothing ==
    [][ (last'.op = "authorized" /\ (last'.token = NoToken \/ ~last'.r_ok)) =>
          /\ last'.result = "return_false"
          /\ last'.flash = IF last'.token = NoToken
                           THEN <<"Unable to log in.">>
                           ELSE <<"Unable to fetch user info.">>
          /\ UNCHANGED << db, cookie >> ]_vars

\* the userinfo request failed in a session that was, and still is, logged in
C6_Witness ==
    /\ last.op = "authorized"
    /\ last.token # NoToken
    /\ ~last.r_ok
    /\ last.flash = <<"Unable to fetch user info.">>
    /\ current_user[last.s] # Anonymous

\* C7: HydraClientBlueprint without creation callback: a completion with token
\* and userinfo for a subject that has no local user flashes "User not found.",
\* commits nothing and does not log the session in as that subject.
C7_StrictLookupUnknownUser ==
    [][ ( /\ last'.op = "authorized"
          /\ variant = "client"
          /\ ~create_local_user
          /\ last'.token # NoToken
          /\ last'.r_ok
          /\ user_table[last'.sub] = NoUser ) =>
          /\ last'.result = "return_false"
          /\ last'.flash = <<"User not found.">>
          /\ UNCHANGED << db, current_user >>
          /\ current_user'[last'.s] # last'.sub ]_vars

\* such a completion was handled
C7_Witness ==
    /\ last.op = "authorized"
    /\ variant = "client"
    /\ ~create_local_user
    /\ last.r_ok
    /\ user_table[last.sub] = NoUser
    /\ last.flash = <<"User not found.">>

\* C8: when the configured callback returns no user, the completion flashes
\* "User not found.", returns without raising, and commits and binds nothing.
C8_DecliningCallbackAborts ==
    [][ (last'.op = "authorized" /\ last'.cb = "none") =>
          /\ last'.result = "return_false"
          /\ last'.flash = <<"User not found.">>
          /\ UNCHANGED << db, current_user >> ]_vars

\* C9: HydraOAuth2Blueprint with a reconciliation callback: a completion whose
\* callback returns the user succeeds and commits the user as the callback
\* returned it together with one Token Record holding the payload; no step
\* writes a user without leaving its Token Record, or a Token Record without
\* its user.
C9_UserAndTokenCommittedTogether ==
    [][ (variant = "oauth2" /\ create_or_update_local_user) =>
          /\ (last'.op = "authorized" /\ last'.cb \in {"created", "updated"}) =>
                ( /\ last'.flash = <<"Logged in.">>
                  /\ user_table'[last'.sub] = User(last'.sub, last'.email)
                  /\ token_table'[last'.sub] = << last'.token >> )
          /\ \A u \in UserIds :
                /\ user_table'[u] # user_table[u] => token_table'[u] # << >>
                /\ token_table'[u] # token_table[u] => user_table'[u] # NoUser ]_vars

\* a completion updated a user and the Token Record it already had
C9_Witness ==
    /\ variant = "oauth2"
    /\ last.op = "authorized"
    /\ last.cb = "updated"
    /\ last.email = "e2"
    /\ user_table[last.sub] = User(last.sub, "e2")
    /\ last.token.access_token = "a2"
    /\ token_table[last.sub] = << last.token >>

\* C10: get_access_token() in the session of a user whose login completions
\* succeeded returns the access_token of the payload of the most recent one; for
\* a logged-in user without Token Record it raises.
C10_AccessTokenIsLatest ==
    last.op = "get_access_token" =>
        LET u == current_user[last.s]
        IN  /\ (u # Anonymous /\ latest[u] # NoToken) =>
                  (last.result = "return" /\ last.value = latest[u].access_token)
            /\ (u # Anonymous /\ token_table[u] = << >>) => last.result = "raise"

\* the access token of a logged-in user was returned
C10_Witness ==
    /\ last.op = "get_access_token"
    /\ last.result = "return"
    /\ current_user[last.s] # Anonymous
    /\ last.value = latest[current_user[last.s]].access_token

\* C11: in both blueprints, logout() for an authenticated user who has a Token
\* Record redirects to the end-session endpoint with state equal to a freshly
\* generated nonce that is now the one stored in the session, and with
\* id_token_hint equal to the stored payload's id_token, or to the empty string
\* when the payload holds none; a nonce is never stored without the redirect
\* that carries it.
C11_LogoutRedirectCarriesNonce ==
    [][ last'.op = "logout" =>
          LET s == last'.s
              has_record == /\ current_user[s] # Anonymous
                            /\ Len(token_table[current_user[s]]) = 1
              stored == token_table[current_user[s]][1]
          IN  /\ has_record =>
                   /\ last'.result = "redirect_logout"
                   /\ last'.state_val \notin 1..uuids
                   /\ last'.state_val = session'[s]
                   /\ last'.hint = IF stored.id_token = NoIdToken THEN ""
                                   ELSE stored.id_token
              /\ (session' # session => last'.result = "redirect_logout") ]_vars

\* C12: logout() and get_access_token() raise when the session's user has no
\* Token Record, instead of redirecting or returning a value; logout() then
\* stores no nonce and changes neither the session nor the Token Store.
C12_MissingTokenRecordRaises ==
    [][ ( /\ last'.op \in {"logout", "get_access_token"}
          /\ current_user[last'.s] # Anonymous
          /\ token_table[current_user[last'.s]] = << >> ) =>
          /\ last'.result = "raise"
          /\ last'.value = "NoResultFound"
          /\ UNCHANGED << cookie, db, uuids >> ]_vars

\* logout() was called by a user who is logged in without a Token Record
C12_Witness ==
    /\ last.op = "logout"
    /\ last.result = "raise"
    /\ last.value = "NoResultFound"
    /\ current_user[last.s] # Anonymous
    /\ token_table[current_user[last.s]] = << >>

\* C13: login() and signup() mutate no local state shared between requests, so
\* however the requests interleave, every redirect made by login() carries
\* mode=login and every redirect made by signup() carries mode=signup.
C13_RedirectCarriesOwnMode ==
    last.op \in {"login", "signup"} => last.value = last.op

\* C14: every path through authorized() that returns (missing token, user-info
\* failure, user not found, success) returns False, which suppresses the
\* framework's own persistence of the token; so a login completion that
\* succeeds writes the Token Record exactly once, by the handler's own upsert,
\* and one that fails writes it zero times.
C14_TokenRecordWrittenOnce ==
    [][ last'.op = "authorized" =>
          /\ last'.result \in {"return_false", "raise"}
          /\ IF last'.flash = <<"Logged in.">>
             THEN last'.writes = 1
             ELSE last'.writes = 0 /\ token_table' = token_table ]_vars

\* C15: error() never raises, whichever of error and error_description are
\* passed; it flashes one message that holds the provider name, the error code
\* and the description, each of the two being the empty string when it is not
\* passed; it leaves the session, the Flow State and the Token Store unchanged.
C15_ErrorOnlyFlashes ==
    [][ last'.op = "error" =>
          /\ last'.result # "raise"
          /\ Len(last'.flash) = 6
          /\ last'.flash[2] = title(name)
          /\ last'.flash[4] = (IF last'.error = NoArg THEN "" ELSE last'.error)
          /\ last'.flash[6] = (IF last'.error_description = NoArg THEN ""
                               ELSE last'.error_description)
          /\ UNCHANGED << cookie, db, uuids >> ]_vars

\* error() was called with neither argument while a user was logged in
C15_Witness ==
    /\ last.op = "error"
    /\ last.error = NoArg
    /\ last.error_description = NoArg
    /\ current_user[last.s] # Anonymous

\* C16: a session that is authenticated as U through this provider's flow has
\* a Token Record for (provider, U.id), the session being bound only after the
\* record is persisted; so logout() and get_access_token() never find zero
\* records for a user who was logged in by this flow.
C16_BoundSessionHasTokenRecord ==
    \A s \in Sessions :
       via_flow[s] =>
          /\ current_user[s] # Anonymous
          /\ Len(token_table[current_user[s]]) = 1
          /\ (last.s = s /\ last.op \in {"logout", "get_access_token"}) =>
                last.value # "NoResultFound"

\* logout() found the Token Record of a user who was logged in by the flow
C16_Witness ==
    /\ via_flow[last.s]
    /\ last.op = "logout"
    /\ last.result = "redirect_logout"

\* C17: the session holds at most one nonce for the provider and each logout()
\* replaces it by a fresh one; once logout() has issued N1 and a later logout()
\* has issued N2, logged_out(state=N1) changes nothing and only N2 is honored.
C17_OnlyLatestNonceHonored ==
    [][ /\ (last'.op = "logout" /\ last'.result = "redirect_logout") =>
              /\ last'.state_val \notin 1..uuids
              /\ session'[last'.s] = last'.state_val
        /\ last'.op = "logged_out" =>
              /\ ( /\ last'.state_val \in 1..uuids
                   /\ session[last'.s] # NoneVal
                   /\ last'.state_val # session[last'.s] ) =>
                     UNCHANGED cookie /\ last'.flash = NoFlash
              /\ last'.flash = <<"Logged out.">> =>
                     last'.state_val = session[last'.s] ]_vars

\* the nonce of an earlier logout() was presented after a later logout() had
\* replaced it: the session is still authenticated and holds the later nonce
C17_Witness ==
    /\ last.op = "logged_out"
    /\ last.state_val \in Nonces
    /\ session[last.s] \in Nonces
    /\ last.state_val < session[last.s]
    /\ last.flash = NoFlash
    /\ current_user[last.s] # Anonymous

\* C18: once logout() has stored N in an authenticated session, a logged_out()
\* call with any value other than N leaves N stored and the session
\* authenticated, and a logged_out(state=N) after such calls still destroys the
\* session and erases N.
C18_StrayCallbackCannotCancel ==
    [][ ( /\ last'.op = "logged_out"
          /\ session[last'.s] # NoneVal
          /\ current_user[last'.s] # Anonymous ) =>
          IF last'.state_val # session[last'.s]
          THEN UNCHANGED cookie
          ELSE /\ current_user'[last'.s] = Anonymous
               /\ session'[last'.s] = NoneVal ]_vars

\* the stored nonce was honored right after a call that did not match it
C18_Witness ==
    /\ last.op = "logged_out"
    /\ last.strays
    /\ last.flash = <<"Logged out.">>
    /\ current_user[last.s] = Anonymous
    /\ session[last.s] = NoneVal

\* C19: logout() leaves the session's authenticated user and the Token Store
\* unchanged; logged_out() never changes the Token Store or the user records;
\* authorized() never creates, changes or erases the nonce in the session.
C19_HandlersKeepTheirFrame ==
    [][ /\ last'.op = "logout" => UNCHANGED << current_user, db >>
        /\ last'.op = "logged_out" => UNCHANGED db
        /\ last'.op = "authorized" => UNCHANGED session ]_vars

\* a login completion succeeded while a logout was pending: the nonce is still
\* in the session
C19_Witness ==
    /\ last.op = "authorized"
    /\ last.flash = <<"Logged in.">>
    /\ session[last.s] # NoneVal
====
